---- MODULE Spec2Model ----
(***************************************************************************)
(* Model of the cg-raytracer core: Vec3 algebra, Ray, the primitives'      *)
(* intersection tests, Scene (insertion and nearest-intersection query)    *)
(* and Renderer (shade, trace_ray).                                        *)
(*                                                                         *)
(* f32 values are modelled as fixed-point integers with Scale units per    *)
(* 1.0, so that the renderer's EPSILON = 1e-4 is exactly one unit.  Every  *)
(* product and quotient is rounded to the nearest unit, symmetrically in   *)
(* the sign, as IEEE rounding is.  An Option is a sequence: <<>> is None,  *)
(* <<x>> is Some(x).  A recursive call of trace_ray is a frame pushed on   *)
(* an explicit call stack.  A value the source binds with `let` and reads  *)
(* more than once is the parameter of an operator for the rest of the      *)
(* function, named after the function and the value.                       *)
(***************************************************************************)
EXTENDS Integers, Sequences, FiniteSets, TLC

\* ------------------------------------------------------------------ f32
Scale == 10000

Abs(a) == IF a < 0 THEN -a ELSE a

Max2(a, b) == IF a > b THEN a ELSE b

Min2(a, b) == IF a < b THEN a ELSE b

\* f32 `a * b`: the product of the magnitudes, rounded to the grid, computed
\* by parts so that no intermediate value leaves the 32-bit integers
MulParts(ph, pl, qh, ql) ==
    ph * qh * Scale + ph * ql + pl * qh + (pl * ql + Scale \div 2) \div Scale

FMul(a, b) ==
    LET m == MulParts(Abs(a) \div Scale, Abs(a) % Scale,
                      Abs(b) \div Scale, Abs(b) % Scale)
    IN  IF (a < 0) # (b < 0) THEN -m ELSE m

\* r / q on the grid for 0 <= r < q; the seven digits of an f32 are kept
\* when q is large
DivFraction(r, q) ==
    IF q <= 200000 THEN (r * Scale + q \div 2) \div q
    ELSE (r * 100 + q \div 200) \div (q \div 100)

DivParts(p, q) == (p \div q) * Scale + DivFraction(p % q, q)

\* f32 `a / b`, for b # 0
FDiv(a, b) ==
    LET m == DivParts(Abs(a), Abs(b))
    IN  IF (a < 0) # (b < 0) THEN -m ELSE m

RECURSIVE ISqrtIter(_, _)
ISqrtIter(n, x) ==
    LET y == (x + n \div x) \div 2
    IN  IF y >= x THEN x ELSE ISqrtIter(n, y)

\* r or r + 1, whichever is nearer to the square root of n
ISqrtRound(n, r) == IF n - r * r > r THEN r + 1 ELSE r

\* nearest integer to the square root of n >= 0
ISqrt(n) == IF n <= 0 THEN 0 ELSE ISqrtRound(n, ISqrtIter(n, 46341))

\* f32 `a.sqrt()`, for a >= 0
FSqrt(a) ==
    IF a < 200000 THEN ISqrt(a * Scale) ELSE 10 * ISqrt(a * 100)

\* f32 `x.powf(n)` for the integral exponents the materials use
FSquare(h) == FMul(h, h)

RECURSIVE FPow(_, _)
FPow(x, n) ==
    IF n = 0 THEN Scale
    ELSE IF n % 2 = 0 THEN FSquare(FPow(x, n \div 2))
    ELSE FMul(x, FPow(x, n - 1))

\* f32::INFINITY and f32::NAN; no arithmetic is ever done on them
INFINITY == 2147483647

NAN == 2147483646

\* f32 `a / b` also for b = 0: x/0 is an infinity and 0/0 is NaN
FDivX(a, b) ==
    IF b # 0 THEN FDiv(a, b)
    ELSE IF a > 0 THEN INFINITY
    ELSE IF a < 0 THEN -INFINITY
    ELSE NAN

\* f32 `a > b`, false when either side is NaN
FGt(a, b) == a # NAN /\ b # NAN /\ a > b

\* `x < 1e-6` and `x > 1e-6` for x on the 1e-4 grid
LtMicro(x) == 100 * x < 1

GtMicro(x) == 100 * x > 1

\* f32 `a % b` for b > 0: the remainder has the sign of a
FRem(a, b) == IF a < 0 THEN -((-a) % b) ELSE a % b

PI == 31416

\* atan(z) for 0 <= z <= 1, to within 4e-3
AtanUnit(z) == FMul(z, 7854) + FMul(FMul(2730, z), Scale - z)

\* atan2 in the first quadrant, for ay >= 0 and ax >= 0 not both 0
AtanQuadrant(ay, ax) ==
    IF ay <= ax THEN AtanUnit(FDiv(ay, ax))
    ELSE PI \div 2 - AtanUnit(FDiv(ax, ay))

\* the angle a of (|x|, |y|) carried to the quadrant of (x, y)
AtanSigned(a, y, x) ==
    IF y < 0 THEN (IF x < 0 THEN a - PI ELSE -a)
    ELSE IF x < 0 THEN PI - a ELSE a

\* f32 `y.atan2(x)`
FAtan2(y, x) ==
    IF x = 0 /\ y = 0 THEN 0
    ELSE AtanSigned(AtanQuadrant(Abs(y), Abs(x)), y, x)

\* f32 `y.asin()` for -1 <= y <= 1
FAsin(y) == FAtan2(y, FSqrt(Scale - FMul(y, y)))

None == <<>>

Some(x) == <<x>>

\* ----------------------------------------------------------------- Vec3
Vec3(x, y, z) == [x |-> x, y |-> y, z |-> z]

zero == Vec3(0, 0, 0)

dot(a, b) == FMul(a.x, b.x) + FMul(a.y, b.y) + FMul(a.z, b.z)

length(v) == FSqrt(FMul(v.x, v.x) + FMul(v.y, v.y) + FMul(v.z, v.z))

add(a, b) == Vec3(a.x + b.x, a.y + b.y, a.z + b.z)

sub(a, b) == Vec3(a.x - b.x, a.y - b.y, a.z - b.z)

mul(v, s) == Vec3(FMul(v.x, s), FMul(v.y, s), FMul(v.z, s))

div(v, s) == Vec3(FDiv(v.x, s), FDiv(v.y, s), FDiv(v.z, s))

neg(v) == Vec3(-v.x, -v.y, -v.z)

\* normalize from `let len` on
normalize_len(v, len) == IF len > 0 THEN div(v, len) ELSE zero

normalize(v) == normalize_len(v, length(v))

cross(a, b) ==
    Vec3(FMul(a.y, b.z) - FMul(a.z, b.y),
         FMul(a.z, b.x) - FMul(a.x, b.z),
         FMul(a.x, b.y) - FMul(a.y, b.x))

\* mutant: the component along the normal is removed, not inverted
reflect_flatten(v, normal) == sub(v, mul(normal, dot(v, normal)))

reflect(v, normal) == sub(v, mul(normal, 2 * dot(v, normal)))

clamp1(c) == Max2(0, Min2(c, Scale))

\* mutant: the channels are left as they are
clamp_none(v) == v

clamp(v) == Vec3(clamp1(v.x), clamp1(v.y), clamp1(v.z))

\* ------------------------------------------------------------------ Ray
Ray(origin, direction) == [origin |-> origin, direction |-> direction]

at(ray, t) == add(ray.origin, mul(ray.direction, t))

\* --------------------------------------------------------------- Camera
\* f32::to_radians
to_radians(degrees) == (FMul(degrees, PI) + 90) \div 180

\* the terms of the series of tan from the fifth power on
FTanHigh(x5, x2) ==
    FDiv(2 * x5, 15 * Scale) + FDiv(17 * FMul(x5, x2), 315 * Scale)

FTanTerms(x, x2, x3) == x + FDiv(x3, 3 * Scale) + FTanHigh(FMul(x3, x2), x2)

FTanSquare(x, x2) == FTanTerms(x, x2, FMul(x, x2))

\* f32::tan for an angle below a quarter of a turn, by its series
FTan(x) == FTanSquare(x, FMul(x, x))

\* update_vectors from `self.lower_left_corner` on
Camera_corner(position, forward, horizontal, vertical) ==
    [position |-> position, horizontal |-> horizontal, vertical |-> vertical,
     lower_left_corner |->
         sub(sub(add(position, forward), div(horizontal, 2 * Scale)),
             div(vertical, 2 * Scale))]

\* from `self.horizontal` on
Camera_viewport(position, forward, right, up_normalized, viewport_width, viewport_height) ==
    Camera_corner(position, forward, mul(right, viewport_width),
                  mul(up_normalized, viewport_height))

\* from `self.up_normalized` on
Camera_right(position, forward, right, aspect_ratio, viewport_height) ==
    Camera_viewport(position, forward, right,
                    normalize(cross(right, forward)),
                    FMul(aspect_ratio, viewport_height), viewport_height)

\* from `self.right` on
update_vectors(position, forward, up, fov, aspect_ratio) ==
    Camera_right(position, forward, normalize(cross(forward, up)),
                 aspect_ratio, 2 * FTan(to_radians(fov) \div 2))

Camera_new(position, look_at, up, fov, aspect_ratio, width, height) ==
    update_vectors(position, normalize(sub(look_at, position)),
                   normalize(up), fov, aspect_ratio)

Camera_get_ray(self, u, v) ==
    Ray(self.position,
        normalize(sub(add(add(self.lower_left_corner,
                              mul(self.horizontal, u)),
                          mul(self.vertical, v)),
                      self.position)))

\* ------------------------------------------------------------- Material
Material_new(color) ==
    [color |-> color, albedo |-> 8000, specular |-> 2000, shininess |-> 32,
     reflectivity |-> 0, has_texture |-> FALSE, texture_id |-> None]

Material_diffuse(color) ==
    [color |-> color, albedo |-> 8000, specular |-> 0, shininess |-> 1,
     reflectivity |-> 0, has_texture |-> FALSE, texture_id |-> None]

Material_shiny(color) ==
    [color |-> color, albedo |-> 5000, specular |-> 8000, shininess |-> 64,
     reflectivity |-> 3000, has_texture |-> FALSE, texture_id |-> None]

Material_reflective(color) ==
    [color |-> color, albedo |-> 1000, specular |-> 9000, shininess |-> 128,
     reflectivity |-> 9000, has_texture |-> FALSE, texture_id |-> None]

with_texture(self, texture_id) ==
    [self EXCEPT !.has_texture = TRUE, !.texture_id = Some(texture_id)]

\* ---------------------------------------------------------------- Light
Light_new(position, color, intensity) ==
    [position |-> position, color |-> color, intensity |-> intensity]

Light_white(position, intensity) ==
    [position |-> position, color |-> Vec3(Scale, Scale, Scale),
     intensity |-> intensity]

\* --------------------------------------------------------------- Sphere
Sphere_new(center, radius, material) ==
    [kind |-> "Sphere", center |-> center, radius |-> radius,
     material |-> material]

\* mutant: the larger root is tried first
Sphere_nearest_far(t1, t2) ==
    IF FGt(t2, 1) THEN Some(t2)
    ELSE IF FGt(t1, 1) THEN Some(t1)
    ELSE None

\* Sphere::intersect from the two roots on
Sphere_nearest(t1, t2) ==
    IF FGt(t1, 1) THEN Some(t1)
    ELSE IF FGt(t2, 1) THEN Some(t2)
    ELSE None

\* from `let discriminant_sqrt` on
Sphere_roots(a, b, discriminant_sqrt) ==
    Sphere_nearest(FDivX(-b - discriminant_sqrt, 2 * a),
                   FDivX(-b + discriminant_sqrt, 2 * a))

\* from the test of the discriminant on
Sphere_discriminant(a, b, discriminant) ==
    IF discriminant < 0 THEN None
    ELSE Sphere_roots(a, b, FSqrt(discriminant))

\* from `let discriminant` on
Sphere_quadratic(a, b, c) ==
    Sphere_discriminant(a, b, FMul(b, b) - 4 * FMul(a, c))

\* from `let a` on
Sphere_oc(self, ray, oc) ==
    Sphere_quadratic(dot(ray.direction, ray.direction),
                     2 * dot(oc, ray.direction),
                     dot(oc, oc) - FMul(self.radius, self.radius))

Sphere_intersect(self, ray) ==
    Sphere_oc(self, ray, sub(ray.origin, self.center))

Sphere_normal_at(self, point) == normalize(sub(point, self.center))

\* ---------------------------------------------------------------- Plane
Plane_new(point, normal, material) ==
    [kind |-> "Plane", point |-> point, normal |-> normalize(normal),
     material |-> material]

\* Plane::intersect from the test of t on
Plane_t(t) == IF t > 1 THEN Some(t) ELSE None

\* from the test of denom on
Plane_denom(self, ray, denom) ==
    IF LtMicro(Abs(denom)) THEN None
    ELSE Plane_t(FDiv(dot(sub(self.point, ray.origin), self.normal), denom))

Plane_intersect(self, ray) ==
    Plane_denom(self, ray, dot(ray.direction, self.normal))

Plane_normal_at(self, point) == self.normal

\* ----------------------------------------------------------------- Cube
Cube_new(min, max, material) ==
    [kind |-> "Cube", min |-> min, max |-> max, material |-> material]

Cube_centered(center, size, material) ==
    LET half == FMul(size, 5000)
    IN  [kind |-> "Cube",
         min |-> Vec3(center.x - half, center.y - half, center.z - half),
         max |-> Vec3(center.x + half, center.y + half, center.z + half),
         material |-> material]

Axis(v, i) == IF i = 0 THEN v.x ELSE IF i = 1 THEN v.y ELSE v.z

\* the slab loop from axis i on, with the running interval [t_min, t_max];
\* the result is <<>> for an early `return None`, else <<t_min, t_max>>
RECURSIVE CubeSlabs(_, _, _, _, _)
CubeSlabs(self, ray, i, t_min, t_max) ==
    IF i = 3 THEN <<t_min, t_max>>
    ELSE LET ray_start == Axis(ray.origin, i)
             ray_dir == Axis(ray.direction, i)
             min_bound == Axis(self.min, i)
             max_bound == Axis(self.max, i)
             a0 == FDiv(min_bound - ray_start, ray_dir)
             a1 == FDiv(max_bound - ray_start, ray_dir)
             t0 == IF a0 > a1 THEN a1 ELSE a0
             t1 == IF a0 > a1 THEN a0 ELSE a1
             n_min == Max2(t_min, t0)
             n_max == Min2(t_max, t1)
         IN  IF GtMicro(Abs(ray_dir))
             THEN IF n_min > n_max THEN <<>>
                  ELSE CubeSlabs(self, ray, i + 1, n_min, n_max)
             ELSE IF ray_start < min_bound \/ ray_start > max_bound THEN <<>>
             ELSE CubeSlabs(self, ray, i + 1, t_min, t_max)

\* mutant: the entry distance is returned whatever its sign
Cube_nearest_entry(tt) ==
    IF tt = <<>> THEN None
    ELSE IF tt[1] > -INFINITY THEN Some(tt[1])
    ELSE IF tt[2] > 1 THEN Some(tt[2])
    ELSE None

\* Cube::intersect after the loop, on what the loop left
Cube_nearest(tt) ==
    IF tt = <<>> THEN None
    ELSE IF tt[1] > 1 THEN Some(tt[1])
    ELSE IF tt[2] > 1 THEN Some(tt[2])
    ELSE None

Cube_intersect(self, ray) ==
    Cube_nearest(CubeSlabs(self, ray, 0, -INFINITY, INFINITY))

Cube_normal_at(self, point) ==
    LET dx_min == Abs(point.x - self.min.x)
        dx_max == Abs(point.x - self.max.x)
        dy_min == Abs(point.y - self.min.y)
        dy_max == Abs(point.y - self.max.y)
        dz_min == Abs(point.z - self.min.z)
        dz_max == Abs(point.z - self.max.z)
        min_dist == Min2(Min2(Min2(Min2(Min2(dx_min, dx_max), dy_min), dy_max),
                              dz_min), dz_max)
    IN  IF LtMicro(Abs(min_dist - dx_min)) THEN Vec3(-Scale, 0, 0)
        ELSE IF LtMicro(Abs(min_dist - dx_max)) THEN Vec3(Scale, 0, 0)
        ELSE IF LtMicro(Abs(min_dist - dy_min)) THEN Vec3(0, -Scale, 0)
        ELSE IF LtMicro(Abs(min_dist - dy_max)) THEN Vec3(0, Scale, 0)
        ELSE IF LtMicro(Abs(min_dist - dz_min)) THEN Vec3(0, 0, -Scale)
        ELSE Vec3(0, 0, Scale)

\* -------------------------------------------------------------- Pyramid
Pyramid_new(apex, base_center, height, base_radius, material) ==
    [kind |-> "Pyramid", apex |-> apex, base_center |-> base_center,
     height |-> height, base_radius |-> base_radius, material |-> material]

\* cos and sin of angle1 = 0, angle2 = 2*PI/3, angle3 = 4*PI/3
AngleCos == <<Scale, -5000, -5000>>

AngleSin == <<0, 8660, -8660>>

get_base_vertices(self) ==
    [i \in 1..3 |->
        Vec3(self.base_center.x + FMul(self.base_radius, AngleCos[i]),
             self.base_center.y,
             self.base_center.z + FMul(self.base_radius, AngleSin[i]))]

\* intersect_triangle from the test of v on
triangle_t(u, v, t) ==
    IF v < 0 \/ u + v > Scale THEN None
    ELSE IF GtMicro(t) THEN Some(t)
    ELSE None

\* from the test of u on
triangle_v(ray, edge2, f, u, q) ==
    IF u < 0 \/ u > Scale THEN None
    ELSE triangle_t(u, FMul(f, dot(ray.direction, q)), FMul(f, dot(edge2, q)))

\* from `let u` on
triangle_u(ray, edge1, edge2, h, f, s) ==
    triangle_v(ray, edge2, f, FMul(f, dot(s, h)), cross(s, edge1))

\* from the test of a on
triangle_a(ray, v0, edge1, edge2, h, a) ==
    IF LtMicro(Abs(a)) THEN None
    ELSE triangle_u(ray, edge1, edge2, h, FDiv(Scale, a), sub(ray.origin, v0))

\* from `let a` on
triangle_h(ray, v0, edge1, edge2, h) ==
    triangle_a(ray, v0, edge1, edge2, h, dot(edge1, h))

\* from `let h` on
triangle_edges(ray, v0, edge1, edge2) ==
    triangle_h(ray, v0, edge1, edge2, cross(ray.direction, edge2))

intersect_triangle(self, ray, v0, v1, v2) ==
    triangle_edges(ray, v0, sub(v1, v0), sub(v2, v0))

\* mutant: the farthest face is kept
closer_t_far(hit, closest_t) ==
    IF hit # None /\ (closest_t = INFINITY \/ hit[1] > closest_t)
    THEN hit[1] ELSE closest_t

\* closest_t after a face that returned hit
closer_t(hit, closest_t) ==
    IF hit # None /\ hit[1] < closest_t THEN hit[1] ELSE closest_t

\* closest_t after the lateral faces from i on
RECURSIVE PyramidFaces(_, _, _, _, _)
PyramidFaces(self, ray, base_verts, i, closest_t) ==
    IF i = 3 THEN closest_t
    ELSE PyramidFaces(self, ray, base_verts, i + 1,
             closer_t(intersect_triangle(self, ray, self.apex,
                                         base_verts[i + 1],
                                         base_verts[((i + 1) % 3) + 1]),
                      closest_t))

\* closest_t after the base
Pyramid_base(self, ray, base_verts, closest_t) ==
    closer_t(intersect_triangle(self, ray, base_verts[1], base_verts[2],
                                base_verts[3]),
             closest_t)

\* Pyramid::intersect after the faces
Pyramid_closest(closest_t) ==
    IF closest_t < INFINITY THEN Some(closest_t) ELSE None

\* from `let mut closest_t` on
Pyramid_faces(self, ray, base_verts) ==
    Pyramid_closest(
        Pyramid_base(self, ray, base_verts,
                     PyramidFaces(self, ray, base_verts, 0, INFINITY)))

Pyramid_intersect(self, ray) ==
    Pyramid_faces(self, ray, get_base_vertices(self))

\* the center of the pyramid in normal_at
Pyramid_center(self) ==
    Vec3(FMul(self.apex.x + self.base_center.x, 5000),
         FMul(self.apex.y + self.base_center.y, 5000),
         FMul(self.apex.z + self.base_center.z, 5000))

face_center(v0, v1, v2) ==
    Vec3(FDiv(v0.x + v1.x + v2.x, 3 * Scale),
         FDiv(v0.y + v1.y + v2.y, 3 * Scale),
         FDiv(v0.z + v1.z + v2.z, 3 * Scale))

\* the normal of a face, inverted when it points inward
outward_normal(normal, outward) ==
    IF dot(normal, outward) < 0 THEN mul(normal, -Scale) ELSE normal

face_normal(self, v0, v1, v2) ==
    outward_normal(normalize(cross(sub(v1, v0), sub(v2, v0))),
                   sub(face_center(v0, v1, v2), Pyramid_center(self)))

\* <<closest_normal, min_distance>> after a face at `distance`
nearer_face(normal, distance, closest) ==
    IF distance < closest[2] THEN <<normal, distance>> ELSE closest

\* from `let to_point` on
face_distance(point, v0, normal, closest) ==
    nearer_face(normal, Abs(dot(sub(point, v0), normal)), closest)

\* <<closest_normal, min_distance>> after the lateral faces from i on
RECURSIVE PyramidNormals(_, _, _, _, _)
PyramidNormals(self, point, base_verts, i, closest) ==
    IF i = 3 THEN closest
    ELSE PyramidNormals(self, point, base_verts, i + 1,
             face_distance(point, self.apex,
                           face_normal(self, self.apex, base_verts[i + 1],
                                       base_verts[((i + 1) % 3) + 1]),
                           closest))

Pyramid_normal_at(self, point) ==
    IF Abs(point.y - self.base_center.y) < 1 THEN Vec3(0, -Scale, 0)
    ELSE normalize(PyramidNormals(self, point, get_base_vertices(self), 0,
                                  <<Vec3(0, -Scale, 0), INFINITY>>)[1])

\* -------------------------------------------------------------- Texture
\* mutant: the texel index is rounded to the nearest, not truncated
Texture_sample_round(self, u0, v0) ==
    LET u == clamp1(u0)
        v == clamp1(v0)
        x == Min2((2 * u * self.width + Scale) \div (2 * Scale), self.width - 1)
        y == Min2((2 * v * self.height + Scale) \div (2 * Scale), self.height - 1)
    IN  self.data[y + 1][x + 1]

Texture_sample(self, u0, v0) ==
    LET u == clamp1(u0)
        v == clamp1(v0)
        x == Min2((u * self.width) \div Scale, self.width - 1)
        y == Min2((v * self.height) \div Scale, self.height - 1)
    IN  self.data[y + 1][x + 1]

\* --------------------------------------------------------------- get_uv
UV(u, v, face) == [u |-> u, v |-> v, face |-> face]

Sphere_get_uv(self, point) ==
    LET normal == Sphere_normal_at(self, point)
        u == 5000 + FMul(FDiv(FAtan2(normal.z, normal.x), PI), 5000)
        v == 5000 - FDiv(FAsin(normal.y), PI)
    IN  Some(UV(u, v, 0))

Plane_get_uv(self, point) ==
    LET tangent == IF Abs(self.normal.x) > 9000
                   THEN normalize(cross(Vec3(0, Scale, 0), self.normal))
                   ELSE normalize(cross(Vec3(Scale, 0, 0), self.normal))
        bitangent == normalize(cross(self.normal, tangent))
        relative_pos == sub(point, self.point)
        u == FRem(FMul(dot(relative_pos, tangent), 5000), Scale)
        v == FRem(FMul(dot(relative_pos, bitangent), 5000), Scale)
    IN  Some(UV(Abs(u), Abs(v), 1))

Cube_get_uv(self, point) ==
    LET epsilon == 1
        size_x == self.max.x - self.min.x
        size_y == self.max.y - self.min.y
        size_z == self.max.z - self.min.z
        px == FDivX(point.x - self.min.x, size_x)
        py == FDivX(point.y - self.min.y, size_y)
        pz == FDivX(point.z - self.min.z, size_z)
    IN  IF Abs(point.x - self.min.x) < epsilon THEN Some(UV(pz, py, 0))
        ELSE IF Abs(point.x - self.max.x) < epsilon
        THEN Some(UV(Scale - pz, py, 1))
        ELSE IF Abs(point.y - self.min.y) < epsilon
        THEN Some(UV(px, Scale - pz, 2))
        ELSE IF Abs(point.y - self.max.y) < epsilon THEN Some(UV(px, pz, 3))
        ELSE IF Abs(point.z - self.min.z) < epsilon THEN Some(UV(px, py, 4))
        ELSE IF Abs(point.z - self.max.z) < epsilon
        THEN Some(UV(Scale - px, py, 5))
        ELSE None

Pyramid_get_uv(self, point) == Some(UV(0, 0, 0))

\* -------------------------------------------------------- Intersectable
intersect(object, ray) ==
    CASE object.kind = "Sphere" -> Sphere_intersect(object, ray)
      [] object.kind = "Plane" -> Plane_intersect(object, ray)
      [] object.kind = "Cube" -> Cube_intersect(object, ray)
      [] object.kind = "Pyramid" -> Pyramid_intersect(object, ray)

normal_at(object, point) ==
    CASE object.kind = "Sphere" -> Sphere_normal_at(object, point)
      [] object.kind = "Plane" -> Plane_normal_at(object, point)
      [] object.kind = "Cube" -> Cube_normal_at(object, point)
      [] object.kind = "Pyramid" -> Pyramid_normal_at(object, point)

get_material(object) == object.material

get_uv(object, point) ==
    CASE object.kind = "Sphere" -> Sphere_get_uv(object, point)
      [] object.kind = "Plane" -> Plane_get_uv(object, point)
      [] object.kind = "Cube" -> Cube_get_uv(object, point)
      [] object.kind = "Pyramid" -> Pyramid_get_uv(object, point)

\* ---------------------------------------------------------------- Scene
Scene_new(camera, background_color) ==
    [objects |-> <<>>, lights |-> <<>>, camera |-> camera,
     background_color |-> background_color, textures |-> <<>>]

\* mutant: adding an object empties the texture table
Scene_add_object_reset(self, object) ==
    [self EXCEPT !.objects = Append(@, object), !.textures = <<>>]

Scene_add_object(self, object) == [self EXCEPT !.objects = Append(@, object)]

Scene_add_light(self, light) == [self EXCEPT !.lights = Append(@, light)]

\* Scene::add_texture, called by main and absent from scene.rs: the texture
\* joins the table and its id, the table's length before the push, is returned
Scene_add_texture(self, texture) ==
    [scene |-> [self EXCEPT !.textures = Append(@, texture)],
     id |-> Len(self.textures)]

\* <<closest_t, closest_object>> after object i returned hit
closer_object(hit, i, closest) ==
    IF hit # None /\ hit[1] < closest[1] THEN <<hit[1], i>> ELSE closest

\* <<closest_t, closest_object>> after the objects from index i on;
\* closest_object is 0 for None
RECURSIVE ClosestScan(_, _, _, _)
ClosestScan(objects, ray, i, closest) ==
    IF i > Len(objects) THEN closest
    ELSE ClosestScan(objects, ray, i + 1,
                     closer_object(intersect(objects[i], ray), i, closest))

\* closest_object.map(|obj| (closest_t, obj))
closest_found(closest) ==
    IF closest[2] = 0 THEN None
    ELSE Some([t |-> closest[1], object |-> closest[2]])

\* Some([t, object]) with object the index of the primitive in scene.objects
Scene_find_closest_intersection(self, ray) ==
    closest_found(ClosestScan(self.objects, ray, 1, <<INFINITY, 0>>))

\* ------------------------------------------------------------- Renderer
EPSILON == 1

MAX_DEPTH == 5

AMBIENT_STRENGTH == 2000

\* find_closest_intersection from `let normal` on
hit_at(scene, t, object, hit_point) ==
    Some([t |-> t, hit_point |-> hit_point,
          normal |-> normal_at(scene.objects[object], hit_point),
          object |-> object])

\* from `if let Some((t, object))` on
hit_of(ray, scene, found) ==
    IF found # None
    THEN hit_at(scene, found[1].t, found[1].object, at(ray, found[1].t))
    ELSE None

Renderer_find_closest_intersection(ray, scene) ==
    hit_of(ray, scene, Scene_find_closest_intersection(scene, ray))

\* mutant: a material that names a texture takes its color from the table,
\* and black when the table has no such entry
material_color_sampled(material, scene) ==
    IF material.texture_id = None THEN material.color
    ELSE IF material.texture_id[1] < Len(scene.textures)
    THEN scene.textures[material.texture_id[1] + 1].data[1][1]
    ELSE zero

\* the color shade reads from the material
material_color(material, scene) == material.color

\* mutant: the comparison is reversed
is_in_shadow_beyond(found, distance_to_light) ==
    IF found # None THEN found[1].t > distance_to_light ELSE FALSE

\* the shadow test of shade, on the result of the shadow ray's query
is_in_shadow(found, distance_to_light) ==
    IF found # None THEN found[1].t < distance_to_light ELSE FALSE

\* mutant: the diffuse term ignores the angle to the light
diffuse_flat(light, normal, material, scene, light_dir) ==
    mul(mul(material_color(material, scene), material.albedo), light.intensity)

diffuse(light, normal, material, scene, light_dir) ==
    mul(mul(mul(material_color(material, scene),
                Max2(dot(normal, light_dir), 0)),
            material.albedo), light.intensity)

specular(light, normal, material, view_dir, light_dir) ==
    mul(mul(mul(light.color,
                FPow(Max2(dot(reflect(light_dir, neg(normal)), view_dir), 0),
                     material.shininess)),
            material.specular), light.intensity)

\* the body of the loop from `let shadow_ray` on
light_dir_step(color, light, hit_point, normal, material, scene, view_dir, light_dir, distance_to_light) ==
    IF is_in_shadow(
           Renderer_find_closest_intersection(
               Ray(add(hit_point, mul(normal, EPSILON)), light_dir), scene),
           distance_to_light)
    THEN color
    ELSE add(add(color, diffuse(light, normal, material, scene, light_dir)),
             specular(light, normal, material, view_dir, light_dir))

\* from `let light_dir` on
to_light_step(color, light, hit_point, normal, material, scene, view_dir, to_light) ==
    light_dir_step(color, light, hit_point, normal, material, scene, view_dir,
                   normalize(to_light), length(to_light))

\* what one light adds to `color` in the loop of shade
light_step(color, light, hit_point, normal, material, scene, view_dir) ==
    to_light_step(color, light, hit_point, normal, material, scene, view_dir,
                  sub(light.position, hit_point))

RECURSIVE ShadeLights(_, _, _, _, _, _, _)
ShadeLights(i, color, hit_point, normal, material, scene, view_dir) ==
    IF i > Len(scene.lights) THEN color
    ELSE ShadeLights(i + 1,
                     light_step(color, scene.lights[i], hit_point, normal,
                                material, scene, view_dir),
                     hit_point, normal, material, scene, view_dir)

shade(hit_point, normal, material, scene, view_dir) ==
    clamp(ShadeLights(1,
                      mul(material_color(material, scene), AMBIENT_STRENGTH),
                      hit_point, normal, material, scene, view_dir))

\* the guards and expressions of trace_ray
\* mutant: the base case never applies
depth_below_zero(depth) == depth < 0

depth_exhausted(depth) == depth = 0

\* mutant: black instead of the background
background_black(scene) == zero

background(scene) == scene.background_color

casts_reflection(material, depth) == material.reflectivity > 0 /\ depth > 1

\* mutant: the depth is not decremented
reflected_depth_same(depth) == depth

reflected_depth(depth) == depth - 1

\* mutant: the local color keeps its full weight
blend_added(local_color, reflected_color, reflectivity) ==
    add(local_color, mul(reflected_color, reflectivity))

\* mutant: the two weights are exchanged
blend_swapped(local_color, reflected_color, reflectivity) ==
    add(mul(local_color, reflectivity),
        mul(reflected_color, Scale - reflectivity))

blend(local_color, reflected_color, reflectivity) ==
    add(mul(local_color, Scale - reflectivity),
        mul(reflected_color, reflectivity))

\* --------------------------------------------------------------- Bounds
MaxObjects == 2

MaxLights == 2

MaxTextures == 2

MaxDepthArg == 3

\* the size of the image, 800 x 600 in main
WIDTH == 6

HEIGHT == 4

\* --------------------------------------------------------------- Inputs
Camera == [position |-> Vec3(30000, 25000, 40000)]

Backgrounds == {Vec3(2000, 2000, 2500)}

Grey == Vec3(8500, 8500, 8500)

Red == Vec3(9000, 1000, 1000)

Green == Vec3(1000, 9000, 1000)

White == Vec3(Scale, Scale, Scale)

\* The scene is built as main builds it, one insertion after the other; the
\* k-th insertion of a kind is drawn from the candidates of position k.
\* Objects: a mirror floor, a sphere, a pyramid on the line from the camera
\* to the solids; then a sphere in the same place as the first, its material
\* naming a texture that no scene has, or the cube of main around the
\* sphere, touching its lowest point and textured with the first texture.
Floor ==
    Plane_new(Vec3(0, -10000, 0), Vec3(0, 10000, 0), Material_reflective(Grey))

ObjectsAt(k) ==
    CASE k = 1 ->
            {Floor,
             Sphere_new(Vec3(0, 2500, 0), 7500, Material_diffuse(Green)),
             Pyramid_new(Vec3(15000, 20000, 20000), Vec3(15000, 10000, 20000),
                         10000, 6000, Material_shiny(Green))}
      [] k = 2 ->
            {Sphere_new(Vec3(0, 2500, 0), 7500,
                        with_texture(Material_shiny(Red), 5)),
             Cube_centered(Vec3(0, 5000, 0), 20000,
                           with_texture(Material_new(White), 0))}
      [] k = 3 -> {Floor}
      [] OTHER -> {}

OfKind(kind, k) == {object \in ObjectsAt(k) : object.kind = kind}

\* the light of main, and a bright one at the top of the spheres
MainLight == Light_white(Vec3(50000, 60000, 40000), Scale)

TopLight == Light_new(Vec3(0, 10000, 0), Vec3(Scale, 8000, 6000), 15000)

LightsAt(k) ==
    CASE k = 1 -> {MainLight, TopLight}
      [] k = 2 -> {MainLight}
      [] k = 3 -> {TopLight}
      [] OTHER -> {}

\* the fallback textures of main
Redstone ==
    [width |-> 1, height |-> 1, data |-> <<<<Vec3(8000, 2000, 2000)>>>>]

Stone == [width |-> 1, height |-> 1, data |-> <<<<Vec3(6000, 6000, 6000)>>>>]

TexturesAt(k) ==
    CASE k = 1 -> {Redstone, Stone}
      [] k = 2 -> {Stone}
      [] k = 3 -> {Redstone}
      [] OTHER -> {}

\* straight down onto the floor from below the solids; from the camera of
\* main toward the solids; straight up from the centre of the spheres
Rays == {Ray(Vec3(0, -7500, 0), Vec3(0, -Scale, 0)),
         Ray(Camera.position, normalize(Vec3(-30000, -20000, -40000))),
         Ray(Vec3(0, 2500, 0), Vec3(0, Scale, 0))}

\* ---------------------------------------------------------------- State
VARIABLES
    scene,      \* the Scene
    phase,      \* "setup": main builds the scene; "idle": between two
                \* trace_ray calls; "tracing": inside a trace_ray call
    stack,      \* the nested trace_ray invocations, the innermost last
    ret,        \* the value an invocation has just returned, or None
    call,       \* the arguments of the outermost trace_ray call, or None
    result,     \* what the outermost call returned, or None
    shadeLog,   \* the arguments and result of the last shade call, or None
    retLog,     \* what the invocation that returned last did, or None
    texLog,     \* the textures added, each with the id add_texture returned
    probe,      \* the last call of a pure function: its name, its arguments
                \* and what it returned, or None
    pixel,      \* the position of the pixel loop of main, or None outside it
    framebuffer \* the rows of colors main renders into

vars ==
    <<scene, phase, stack, ret, call, result, shadeLog, retLog, texLog, probe,
      pixel, framebuffer>>

Init ==
    /\ scene \in {Scene_new(Camera, b) : b \in Backgrounds}
    /\ phase = "setup"
    /\ stack = <<>>
    /\ ret = None
    /\ call = None
    /\ result = None
    /\ shadeLog = None
    /\ retLog = None
    /\ texLog = <<>>
    /\ probe = None
    /\ pixel = None
    /\ framebuffer = <<>>

\* ------------------------------------------------------- Scene building
add_texture ==
    /\ phase = "setup"
    /\ Len(scene.textures) < MaxTextures
    /\ \E texture \in TexturesAt(Len(scene.textures) + 1) :
          LET r == Scene_add_texture(scene, texture)
          IN  /\ scene' = r.scene
              /\ texLog' = Append(texLog, [id |-> r.id, texture |-> texture])
    /\ UNCHANGED <<phase, stack, ret, call, result, shadeLog, retLog>>
    /\ UNCHANGED <<probe, pixel, framebuffer>>

add_light ==
    /\ phase = "setup"
    /\ Len(scene.lights) < MaxLights
    /\ \E light \in LightsAt(Len(scene.lights) + 1) :
          scene' = Scene_add_light(scene, light)
    /\ UNCHANGED <<phase, stack, ret, call, result, shadeLog, retLog, texLog>>
    /\ UNCHANGED <<probe, pixel, framebuffer>>

add_sphere ==
    /\ phase = "setup"
    /\ Len(scene.objects) < MaxObjects
    /\ \E sphere \in OfKind("Sphere", Len(scene.objects) + 1) :
          scene' = Scene_add_object(scene, sphere)
    /\ UNCHANGED <<phase, stack, ret, call, result, shadeLog, retLog, texLog>>
    /\ UNCHANGED <<probe, pixel, framebuffer>>

add_plane ==
    /\ phase = "setup"
    /\ Len(scene.objects) < MaxObjects
    /\ \E plane \in OfKind("Plane", Len(scene.objects) + 1) :
          scene' = Scene_add_object(scene, plane)
    /\ UNCHANGED <<phase, stack, ret, call, result, shadeLog, retLog, texLog>>
    /\ UNCHANGED <<probe, pixel, framebuffer>>

add_cube ==
    /\ phase = "setup"
    /\ Len(scene.objects) < MaxObjects
    /\ \E cube \in OfKind("Cube", Len(scene.objects) + 1) :
          scene' = Scene_add_object(scene, cube)
    /\ UNCHANGED <<phase, stack, ret, call, result, shadeLog, retLog, texLog>>
    /\ UNCHANGED <<probe, pixel, framebuffer>>

add_pyramid ==
    /\ phase = "setup"
    /\ Len(scene.objects) < MaxObjects
    /\ \E pyramid \in OfKind("Pyramid", Len(scene.objects) + 1) :
          scene' = Scene_add_object(scene, pyramid)
    /\ UNCHANGED <<phase, stack, ret, call, result, shadeLog, retLog, texLog>>
    /\ UNCHANGED <<probe, pixel, framebuffer>>

\* main starts rendering: the scene is complete
render_start ==
    /\ phase = "setup"
    /\ phase' = "idle"
    /\ UNCHANGED <<scene, stack, ret, call, result, shadeLog, retLog, texLog>>
    /\ UNCHANGED <<probe, pixel, framebuffer>>

\* ------------------------------------------------------------ trace_ray
Frame(ray, depth) ==
    [ray |-> ray, depth |-> depth, stage |-> "call", calls |-> 0,
     local_color |-> zero, reflectivity |-> 0, queried |-> 0]

\* a caller invokes trace_ray(ray, scene, depth)
trace_start ==
    /\ phase = "idle"
    /\ \E ray \in Rays, depth \in 0..MaxDepthArg :
          /\ stack' = <<Frame(ray, depth)>>
          /\ call' = Some([ray |-> ray, depth |-> depth])
    /\ phase' = "tracing"
    /\ ret' = None
    /\ result' = None
    /\ shadeLog' = None
    /\ retLog' = None
    /\ UNCHANGED <<scene, texLog>>
    /\ UNCHANGED <<probe, pixel, framebuffer>>

Top == stack[Len(stack)]

Pop == SubSeq(stack, 1, Len(stack) - 1)

\* the innermost invocation returns without a recursive call
trace_return(color, hit, reflectivity, queried) ==
    /\ stack' = Pop
    /\ ret' = Some([color |-> color, depth |-> Top.depth])
    /\ retLog' = Some([ray |-> Top.ray, depth |-> Top.depth, hit |-> hit,
                       reflectivity |-> reflectivity, local_color |-> color,
                       cast |-> FALSE, reflected |-> None, result |-> color,
                       queried |-> queried])

\* it makes the recursive call for the reflected ray
trace_reflect(found, material, local_color, queried) ==
    /\ stack' = Append(
           [stack EXCEPT ![Len(stack)] =
               [@ EXCEPT !.stage = "wait",
                         !.calls = @ + 1,
                         !.local_color = local_color,
                         !.reflectivity = material.reflectivity,
                         !.queried = queried]],
           Frame(Ray(add(found.hit_point, mul(found.normal, EPSILON)),
                     reflect(Top.ray.direction, found.normal)),
                 reflected_depth(Top.depth)))
    /\ UNCHANGED <<ret, retLog>>

\* trace_ray from the reflection guard on
trace_shaded(found, material, view_dir, local_color, queried) ==
    /\ shadeLog' = Some([hit_point |-> found.hit_point,
                         normal |-> found.normal, material |-> material,
                         view_dir |-> view_dir, object |-> found.object,
                         out |-> local_color])
    /\ IF casts_reflection(material, Top.depth)
       THEN trace_reflect(found, material, local_color, queried)
       ELSE trace_return(local_color, TRUE, material.reflectivity, queried)

\* from `let local_color` on
trace_hit(found, material, view_dir) ==
    trace_shaded(found, material, view_dir,
                 shade(found.hit_point, found.normal, material, scene,
                       view_dir),
                 Len(scene.objects) * (1 + Len(scene.lights)))

\* from `if let Some(..) = find_closest_intersection` on
trace_found(found) ==
    IF found # None
    THEN trace_hit(found[1], get_material(scene.objects[found[1].object]),
                   normalize(sub(scene.camera.position, found[1].hit_point)))
    ELSE /\ trace_return(background(scene), FALSE, 0, Len(scene.objects))
         /\ UNCHANGED shadeLog

\* the innermost invocation runs from its entry to its recursive call or,
\* when it makes none, to its return
trace_ray_call ==
    /\ phase = "tracing"
    /\ stack # <<>>
    /\ Top.stage = "call"
    /\ IF depth_exhausted(Top.depth)
       THEN /\ trace_return(background(scene), FALSE, 0, 0)
            /\ UNCHANGED shadeLog
       ELSE trace_found(Renderer_find_closest_intersection(Top.ray, scene))
    /\ UNCHANGED <<scene, phase, call, result, texLog>>
    /\ UNCHANGED <<probe, pixel, framebuffer>>

\* the recursive call has returned: the caller blends and returns
trace_ray_resume ==
    /\ phase = "tracing"
    /\ stack # <<>>
    /\ Top.stage = "wait"
    /\ ret # None
    /\ LET color == blend(Top.local_color, ret[1].color, Top.reflectivity)
       IN  /\ stack' = Pop
           /\ ret' = Some([color |-> color, depth |-> Top.depth])
           /\ retLog' = Some([ray |-> Top.ray, depth |-> Top.depth,
                              hit |-> TRUE, reflectivity |-> Top.reflectivity,
                              local_color |-> Top.local_color,
                              cast |-> TRUE, reflected |-> ret,
                              result |-> color, queried |-> Top.queried])
    /\ UNCHANGED <<scene, phase, call, result, shadeLog, texLog>>
    /\ UNCHANGED <<probe, pixel, framebuffer>>

\* the outermost call returns to its caller
trace_finish ==
    /\ phase = "tracing"
    /\ stack = <<>>
    /\ ret # None
    /\ result' = Some(ret[1].color)
    /\ ret' = None
    /\ phase' = "idle"
    /\ UNCHANGED <<scene, stack, call, shadeLog, retLog, texLog>>
    /\ UNCHANGED <<probe, pixel, framebuffer>>

Next ==
    \/ add_texture
    \/ add_light
    \/ add_sphere
    \/ add_plane
    \/ add_cube
    \/ add_pyramid
    \/ render_start
    \/ trace_start
    \/ trace_ray_call
    \/ trace_ray_resume
    \/ trace_finish

Spec == Init /\ [][Next]_vars

\* ----------------------------------------------------------------- main
\* `(c * 255.0).clamp(0.0, 255.0) as u8`: the cast truncates
to_u8(c) == Min2(Max2(c * 255, 0), 255 * Scale) \div Scale

color_to_rgb(color) == <<to_u8(color.x), to_u8(color.y), to_u8(color.z)>>

\* the camera of main
MainCamera ==
    Camera_new(Vec3(30000, 25000, 40000), Vec3(0, 5000, 0), Vec3(0, Scale, 0),
               45 * Scale, FDiv(WIDTH * Scale, HEIGHT * Scale), WIDTH, HEIGHT)

\* the scene main renders: its light, its plane and its cube; the textures
\* main adds are named by no material of the scene. The second scene is the
\* same with a mirror for the plane, so that trace_ray calls itself.
SceneOf(plane) ==
    Scene_add_object(
        Scene_add_object(
            Scene_add_light(Scene_new(MainCamera, Vec3(2000, 2000, 2500)),
                            MainLight),
            plane),
        Cube_centered(Vec3(0, 5000, 0), 2 * Scale, Material_diffuse(White)))

MainScene ==
    SceneOf(Plane_new(Vec3(0, -Scale, 0), Vec3(0, Scale, 0),
                      Material_diffuse(Grey)))

MirrorScene == SceneOf(Floor)

\* the column and the row of a pixel as coordinates of the view plane
pixel_u(x) == FDiv(x * Scale, WIDTH * Scale)

pixel_v(y) == Scale - FDiv(y * Scale, HEIGHT * Scale)

\* mutant: the loop over x advances by two columns
next_pixel_skip(x, y) ==
    IF x + 2 < WIDTH THEN [x |-> x + 2, y |-> y] ELSE [x |-> 0, y |-> y + 1]

\* the pixel after (x, y) in `for y in 0..HEIGHT { for x in 0..WIDTH`
next_pixel(x, y) ==
    IF x + 1 < WIDTH THEN [x |-> x + 1, y |-> y] ELSE [x |-> 0, y |-> y + 1]

\* the loop position after the pixel at p, with the log of the pixels written
advance(p, next) ==
    [x |-> next.x, y |-> next.y, written |-> Append(p.written, <<p.x, p.y>>)]

\* main after the scene is built: the framebuffer is allocated, all black
RenderInit ==
    /\ scene \in {MainScene, MirrorScene}
    /\ phase = "render"
    /\ stack = <<>>
    /\ ret = None
    /\ call = None
    /\ result = None
    /\ shadeLog = None
    /\ retLog = None
    /\ texLog = <<>>
    /\ probe = None
    /\ pixel = Some([x |-> 0, y |-> 0, written |-> <<>>])
    /\ framebuffer = [y \in 1..HEIGHT |-> [x \in 1..WIDTH |-> zero]]

\* the body of the loop up to the call of trace_ray
pixel_trace ==
    /\ phase = "render"
    /\ pixel[1].y < HEIGHT
    /\ stack' = <<Frame(Camera_get_ray(scene.camera, pixel_u(pixel[1].x),
                                       pixel_v(pixel[1].y)),
                        MAX_DEPTH)>>
    /\ call' = Some([ray |-> Camera_get_ray(scene.camera, pixel_u(pixel[1].x),
                                            pixel_v(pixel[1].y)),
                     depth |-> MAX_DEPTH])
    /\ phase' = "tracing"
    /\ ret' = None
    /\ result' = None
    /\ shadeLog' = None
    /\ retLog' = None
    /\ UNCHANGED <<scene, texLog, probe, pixel, framebuffer>>

\* trace_ray has returned: the color is stored and the loop advances
pixel_write ==
    /\ phase = "tracing"
    /\ pixel # None
    /\ stack = <<>>
    /\ ret # None
    /\ framebuffer' =
          [framebuffer EXCEPT ![pixel[1].y + 1][pixel[1].x + 1] = ret[1].color]
    /\ pixel' = Some(advance(pixel[1], next_pixel(pixel[1].x, pixel[1].y)))
    /\ result' = Some(ret[1].color)
    /\ ret' = None
    /\ phase' = "render"
    /\ UNCHANGED <<scene, stack, call, shadeLog, retLog, texLog, probe>>

\* the loop over y ends: main goes on to save the image
render_end ==
    /\ phase = "render"
    /\ pixel[1].y = HEIGHT
    /\ phase' = "rendered"
    /\ UNCHANGED <<scene, stack, ret, call, result, shadeLog, retLog, texLog>>
    /\ UNCHANGED <<probe, pixel, framebuffer>>

RenderNext ==
    \/ pixel_trace
    \/ trace_ray_call
    \/ trace_ray_resume
    \/ pixel_write
    \/ render_end

RenderSpec == RenderInit /\ [][RenderNext]_vars

\* ------------------------------------------------------- Pure functions
\* The primitives the pure functions are applied to: a unit sphere, a sphere
\* of radius 0, the plane y = 0, the cube [-1, 1]^3, a pyramid with its apex
\* above its base, one with its apex below, one with base_radius 0.
UnitSphere == Sphere_new(zero, Scale, Material_diffuse(White))

PointSphere == Sphere_new(zero, 0, Material_diffuse(White))

Ground == Plane_new(zero, Vec3(0, Scale, 0), Material_diffuse(White))

Box == Cube_centered(zero, 2 * Scale, Material_diffuse(White))

Tetra ==
    Pyramid_new(Vec3(0, Scale, 0), Vec3(0, -Scale, 0), 2 * Scale, 12000,
                Material_diffuse(White))

Inverted ==
    Pyramid_new(Vec3(0, -Scale, 0), Vec3(0, Scale, 0), 2 * Scale, 12000,
                Material_diffuse(White))

Needle ==
    Pyramid_new(Vec3(0, Scale, 0), Vec3(0, -Scale, 0), 2 * Scale, 0,
                Material_diffuse(White))

Solids == {UnitSphere, PointSphere, Ground, Box, Tetra, Inverted, Needle}

\* origins inside the solids, on their surface, on the y axis above them,
\* and off the axes on every side
Origins ==
    {zero, Vec3(0, Scale, 0), Vec3(0, 30000, 0), Vec3(2000, 30000, 1000),
     Vec3(2000, -30000, 1000), Vec3(30000, 2000, 1000),
     Vec3(2000, 1000, 30000)}

\* the zero vector, the six axis directions and a diagonal
Directions ==
    {zero, Vec3(Scale, 0, 0), Vec3(-Scale, 0, 0), Vec3(0, Scale, 0),
     Vec3(0, -Scale, 0), Vec3(0, 0, Scale), Vec3(0, 0, -Scale),
     normalize(Vec3(-Scale, -Scale, -Scale))}

\* a caller applies intersect of a primitive to a ray
call_intersect ==
    /\ probe = None
    /\ \E object \in Solids, origin \in Origins, direction \in Directions :
          probe' = Some([op |-> "intersect", object |-> object,
                         ray |-> Ray(origin, direction),
                         out |-> intersect(object, Ray(origin, direction))])
    /\ UNCHANGED <<scene, phase, stack, ret, call, result, shadeLog, retLog>>
    /\ UNCHANGED <<texLog, pixel, framebuffer>>

\* the caller applies normal_at of the primitive to the point ray.at(t) of
\* the Some(t) that intersect returned; a t that is not finite gives no point
call_normal_at ==
    /\ probe # None
    /\ probe[1].op = "intersect"
    /\ probe[1].out # None
    /\ probe[1].out[1] < NAN
    /\ probe' = Some([op |-> "normal_at", object |-> probe[1].object,
                      ray |-> probe[1].ray, t |-> probe[1].out[1],
                      point |-> at(probe[1].ray, probe[1].out[1]),
                      out |-> normal_at(probe[1].object,
                                        at(probe[1].ray, probe[1].out[1]))])
    /\ UNCHANGED <<scene, phase, stack, ret, call, result, shadeLog, retLog>>
    /\ UNCHANGED <<texLog, pixel, framebuffer>>

\* unit vectors whose length is exactly 1 on the grid: the axis directions
\* and four oblique vectors, each with its opposite
Units ==
    LET half == {Vec3(Scale, 0, 0), Vec3(0, Scale, 0), Vec3(0, 0, Scale),
                 Vec3(6000, 8000, 0), Vec3(0, -6000, 8000),
                 Vec3(3600, 4800, 8000), Vec3(2800, -9600, 0)}
    IN  half \cup {neg(v) : v \in half}

\* a caller reflects the unit vector d about the unit normal n
call_reflect ==
    /\ probe = None
    /\ \E d \in Units, n \in Units :
          probe' = Some([op |-> "reflect", d |-> d, n |-> n,
                         out |-> reflect(d, n)])
    /\ UNCHANGED <<scene, phase, stack, ret, call, result, shadeLog, retLog>>
    /\ UNCHANGED <<texLog, pixel, framebuffer>>

\* the caller reflects the vector it got about the same normal
call_reflect_again ==
    /\ probe # None
    /\ probe[1].op = "reflect"
    /\ probe' = Some([op |-> "reflect_again", d |-> probe[1].d,
                      n |-> probe[1].n, out |-> reflect(probe[1].out, probe[1].n)])
    /\ UNCHANGED <<scene, phase, stack, ret, call, result, shadeLog, retLog>>
    /\ UNCHANGED <<texLog, pixel, framebuffer>>

\* a texture of 3 x 2 texels, each of its own color, and one of 1 x 3
Checker ==
    [width |-> 3, height |-> 2,
     data |-> <<<<Vec3(0, 0, 0), Vec3(5000, 0, 0), Vec3(Scale, 0, 0)>>,
                <<Vec3(0, Scale, 0), Vec3(5000, Scale, 0),
                  Vec3(Scale, Scale, 0)>>>>]

Column ==
    [width |-> 1, height |-> 3,
     data |-> <<<<Vec3(0, 0, 2000)>>, <<Vec3(0, 0, 5000)>>,
                <<Vec3(0, 0, 8000)>>>>]

\* texture coordinates inside [0, 1], on its ends, on the texel borders of
\* the textures, and outside it
Coords ==
    {-INFINITY, -5000, 0, 1, 3333, 3334, 4999, 5000, 6666, 6667, 9999,
     Scale, 15000, INFINITY}

\* a caller samples a texture at (u, v)
call_sample ==
    /\ probe = None
    /\ \E texture \in {Redstone, Stone, Checker, Column}, u \in Coords,
          v \in Coords :
          probe' = Some([op |-> "sample", texture |-> texture, u |-> u,
                         v |-> v, out |-> Texture_sample(texture, u, v)])
    /\ UNCHANGED <<scene, phase, stack, ret, call, result, shadeLog, retLog>>
    /\ UNCHANGED <<texLog, pixel, framebuffer>>

\* color channels below, inside and above [0, 1]
Channels == {-5000, 0, 19, 20, 5000, 9990, 9999, Scale, 15000}

\* save_image converts a color of the framebuffer
call_color_to_rgb ==
    /\ probe = None
    /\ \E r \in Channels, g \in Channels, b \in Channels :
          probe' = Some([op |-> "color_to_rgb", color |-> Vec3(r, g, b),
                         out |-> color_to_rgb(Vec3(r, g, b))])
    /\ UNCHANGED <<scene, phase, stack, ret, call, result, shadeLog, retLog>>
    /\ UNCHANGED <<texLog, pixel, framebuffer>>

\* lights at distance 5 of the origin, one straight above it, and dark
\* materials, so that no channel of the shaded color reaches 1
Lamps ==
    {Light_new(Vec3(30000, 40000, 0), Vec3(5000, 4000, 3000), Scale),
     Light_new(Vec3(0, 50000, 0), Vec3(5000, 4000, 3000), 8000)}

Paints ==
    {Material_shiny(Vec3(2000, 1000, 1000)),
     Material_diffuse(Vec3(2000, 1000, 1000))}

\* directions to the viewer, among them the mirror images of the directions
\* to the lights about (0, 1, 0) and their opposites
Views == Units \cup {Vec3(-6000, 8000, 0), Vec3(6000, -8000, 0)}

\* trace_ray shades the origin, on a surface of normal (0, 1, 0) with nothing
\* between it and the one light of the scene, seen from view_dir
call_shade ==
    /\ probe = None
    /\ \E light \in Lamps, material \in Paints, view_dir \in Views :
          probe' = Some([op |-> "shade", light |-> light,
                         material |-> material, normal |-> Vec3(0, Scale, 0),
                         view_dir |-> view_dir,
                         out |-> shade(zero, Vec3(0, Scale, 0), material,
                                       Scene_add_light(
                                           Scene_new(Camera,
                                                     Vec3(2000, 2000, 2500)),
                                           light),
                                       view_dir)])
    /\ UNCHANGED <<scene, phase, stack, ret, call, result, shadeLog, retLog>>
    /\ UNCHANGED <<texLog, pixel, framebuffer>>

\* a scene without objects, one whose cube holds the origin inside, and one
\* whose cube has the origin on its top face
Bare == Scene_new(Camera, Vec3(2000, 2000, 2500))

Pedestal == Cube_centered(Vec3(0, -Scale, 0), 2 * Scale, Material_diffuse(White))

Surroundings ==
    {Bare, Scene_add_object(Bare, Box), Scene_add_object(Bare, Pedestal)}

\* a bright light at the origin, alone, after a lamp and before it
AtPoint == Light_new(zero, Vec3(Scale, 8000, 6000), 15000)

Lit(self, lamp) ==
    {Scene_add_light(self, AtPoint),
     Scene_add_light(Scene_add_light(self, lamp), AtPoint),
     Scene_add_light(Scene_add_light(self, AtPoint), lamp)}

\* shade at the origin, where a light of the scene is
call_shade_at_light ==
    /\ probe = None
    /\ \E around \in Surroundings, lamp \in Lamps, material \in Paints, view_dir \in Views :
          \E lit \in Lit(around, lamp) :
              probe' = Some([op |-> "shade_at_light", scene |-> lit,
                             material |-> material, normal |-> Vec3(0, Scale, 0),
                             view_dir |-> view_dir,
                             out |-> shade(zero, Vec3(0, Scale, 0), material,
                                           lit, view_dir)])
    /\ UNCHANGED <<scene, phase, stack, ret, call, result, shadeLog, retLog>>
    /\ UNCHANGED <<texLog, pixel, framebuffer>>

PureNext ==
    \/ call_intersect
    \/ call_normal_at
    \/ call_reflect
    \/ call_reflect_again
    \/ call_sample
    \/ call_color_to_rgb
    \/ call_shade
    \/ call_shade_at_light

PureSpec == Init /\ [][PureNext]_vars

\* --------------------------------------------------------------- Claims
IsColor(c) == c \in [x : Int, y : Int, z : Int]

\* the primitives of the scene that return Some for the ray, and their t
HitsOf(ray) ==
    {i \in 1..Len(scene.objects) : intersect(scene.objects[i], ray) # None}

TOf(i, ray) == intersect(scene.objects[i], ray)[1]

\* the shadow ray of a shade call s toward a light
ShadowRay(s, light) ==
    Ray(add(s.hit_point, mul(s.normal, EPSILON)),
        normalize(sub(light.position, s.hit_point)))

\* some primitive is met by the shadow ray before the light
Occluded(s, light) ==
    \E i \in HitsOf(ShadowRay(s, light)) :
        TOf(i, ShadowRay(s, light)) < length(sub(light.position, s.hit_point))

\* diffuse + specular of a light that nothing occludes
Alone(s, light) ==
    light_step(zero, light, s.hit_point, s.normal, s.material,
               [scene EXCEPT !.objects = <<>>], s.view_dir)

RECURSIVE SumLit(_, _)
SumLit(s, i) ==
    IF i > Len(scene.lights) THEN zero
    ELSE add(IF Occluded(s, scene.lights[i]) THEN zero
             ELSE Alone(s, scene.lights[i]),
             SumLit(s, i + 1))

Ambient(s) == mul(s.material.color, AMBIENT_STRENGTH)

\* C1: an invocation of trace_ray at depth 0 returns the scene's background
\* color and calls no primitive's intersect, whatever the ray and the scene
C1_DepthZero ==
    /\ retLog # None /\ retLog[1].depth = 0 =>
          /\ retLog[1].result = scene.background_color
          /\ retLog[1].queried = 0
    /\ result # None /\ call[1].depth = 0 =>
          result[1] = scene.background_color

\* a depth-0 call has returned in a scene with lights where the ray meets an
\* object
C1_Witness ==
    /\ result # None
    /\ call[1].depth = 0
    /\ scene.lights # <<>>
    /\ HitsOf(call[1].ray) # {}

\* C2: an invocation at depth >= 1 whose ray no primitive of the scene
\* intersects returns the background color, and every invocation returns a
\* color
C2_MissIsBackground ==
    retLog # None =>
        /\ IsColor(retLog[1].result)
        /\ retLog[1].depth >= 1 /\ HitsOf(retLog[1].ray) = {} =>
              retLog[1].result = scene.background_color

\* an invocation at depth >= 1 has returned from a miss in a scene that has
\* objects
C2_Witness ==
    /\ retLog # None
    /\ retLog[1].depth >= 1
    /\ scene.objects # <<>>
    /\ HitsOf(retLog[1].ray) = {}

\* the chain of nested invocations: it starts with the outermost call's
\* depth, each invocation has made at most one recursive call, with a depth
\* one less than its own, and only the innermost is still to run
ChainOK ==
    call # None /\ stack # <<>> =>
        /\ stack[1].depth = call[1].depth
        /\ Len(stack) <= Max2(call[1].depth, 1)
        /\ \A i \in 1..Len(stack) :
              /\ stack[i].calls <= 1
              /\ i < Len(stack) =>
                    /\ stack[i].calls = 1
                    /\ stack[i + 1].depth = stack[i].depth - 1

\* what is left to do of a trace_ray call: the innermost invocation is
\* either still to run, and may nest Top.depth more, or the stack is
\* unwinding through the invocations above it
Variant ==
    IF stack = <<>> THEN 0
    ELSE IF Top.stage = "call" THEN 2 * Len(stack) + 3 * Top.depth
    ELSE 2 * Len(stack) - 1

\* C3 as stated: the chain of nested invocations of a call at depth d is no
\* longer than d
C3_ChainAtMostD == call # None => Len(stack) <= call[1].depth

\* C3, amended: every trace_ray call returns: the nested invocations form a
\* chain of depths d, d-1, ... that make at most one recursive call each, so
\* the chain is no longer than max(d, 1), the call at depth 0 being itself
\* one invocation, and every step of a running call brings it nearer to its
\* return
C3_Terminates ==
    [][/\ ChainOK'
       /\ phase = "tracing" /\ phase' = "tracing" =>
             Variant' < Variant /\ Variant' >= 0]_vars

\* three invocations are nested
C3_Witness == Len(stack) = 3 /\ Top.depth = call[1].depth - 2

\* C4: on a hit a reflection ray is cast iff reflectivity > 0 and depth > 1;
\* then the result is local*(1 - reflectivity) + reflected*reflectivity with
\* reflected returned by the invocation at depth - 1, and otherwise the
\* result is the color shade returned
C4_Reflection ==
    retLog # None /\ retLog[1].hit =>
        LET r == retLog[1]
        IN  /\ r.cast <=> (r.reflectivity > 0 /\ r.depth > 1)
            /\ r.cast =>
                  /\ r.reflected # None
                  /\ r.reflected[1].depth = r.depth - 1
                  /\ r.result =
                        add(mul(r.local_color, Scale - r.reflectivity),
                            mul(r.reflected[1].color, r.reflectivity))
            /\ ~r.cast => shadeLog # None /\ r.result = shadeLog[1].out

\* a reflecting invocation has returned a blend that is neither of its two
\* colors
C4_Witness ==
    /\ retLog # None
    /\ retLog[1].cast
    /\ retLog[1].result # retLog[1].local_color
    /\ retLog[1].result # retLog[1].reflected[1].color

\* the rays the last invocation gave to Scene::find_closest_intersection
QueriedRays ==
    (IF retLog # None /\ retLog[1].depth >= 1 THEN {retLog[1].ray} ELSE {})
    \cup (IF shadeLog # None
          THEN {ShadowRay(shadeLog[1], scene.lights[i]) :
                    i \in 1..Len(scene.lights)}
          ELSE {})

\* C5: find_closest_intersection returns None iff every primitive returns
\* None, and otherwise the minimum t with the first primitive that has it
C5_Closest ==
    \A ray \in QueriedRays :
        LET r == Scene_find_closest_intersection(scene, ray)
            H == HitsOf(ray)
        IN  /\ r = None <=> H = {}
            /\ r # None =>
                  /\ r[1].object \in H
                  /\ r[1].t = TOf(r[1].object, ray)
                  /\ \A i \in H : /\ TOf(i, ray) >= r[1].t
                                  /\ TOf(i, ray) = r[1].t => i >= r[1].object

\* C6: shade adds nothing for a light whose shadow ray meets a primitive at
\* t < the distance to the light, and adds diffuse + specular for every
\* other light
C6_Shadow ==
    shadeLog # None =>
        shadeLog[1].out = clamp(add(Ambient(shadeLog[1]), SumLit(shadeLog[1], 1)))

\* shade has run where one light is occluded and another one is not and
\* adds light
C6_Witness ==
    /\ shadeLog # None
    /\ \E i \in 1..Len(scene.lights) : Occluded(shadeLog[1], scene.lights[i])
    /\ \E i \in 1..Len(scene.lights) :
          /\ ~Occluded(shadeLog[1], scene.lights[i])
          /\ Alone(shadeLog[1], scene.lights[i]) # zero

\* C7: every channel of shade's result is in [0,1], and with no light, or
\* every light occluded, the result is clamp(0.2 * baseColor)
C7_Clamped ==
    shadeLog # None =>
        LET s == shadeLog[1]
        IN  /\ \A c \in {s.out.x, s.out.y, s.out.z} : 0 <= c /\ c <= Scale
            /\ (\A i \in 1..Len(scene.lights) : Occluded(s, scene.lights[i]))
                  => s.out = Vec3(clamp1(Ambient(s).x), clamp1(Ambient(s).y),
                                  clamp1(Ambient(s).z))

\* shade has run where the sum of ambient and the lights exceeds 1 in a
\* channel
C7_Witness ==
    /\ shadeLog # None
    /\ LET sum == add(Ambient(shadeLog[1]), SumLit(shadeLog[1], 1))
       IN  sum.x > Scale \/ sum.y > Scale \/ sum.z > Scale

\* the same material without its texture reference
Untextured(material) ==
    [material EXCEPT !.has_texture = FALSE, !.texture_id = None]

\* C8: when the material names a texture of the scene's table and the hit
\* has UV data, shade works from the texture's color at (u,v)
C8_TextureUsed ==
    shadeLog # None =>
        LET s == shadeLog[1]
            m == s.material
            uv == get_uv(scene.objects[s.object], s.hit_point)
            sampled == Texture_sample(scene.textures[m.texture_id[1] + 1],
                                      uv[1].u, uv[1].v)
        IN  (/\ m.texture_id # None
             /\ m.texture_id[1] < Len(scene.textures)
             /\ uv # None)
            => s.out = shade(s.hit_point, s.normal,
                             [Untextured(m) EXCEPT !.color = sampled],
                             scene, s.view_dir)

\* C9: shading a material whose texture_id is outside the scene's table
\* gives a color, the one the material's base color gives
C9_InvalidTexture ==
    shadeLog # None =>
        LET s == shadeLog[1]
            m == s.material
        IN  (m.texture_id # None /\ m.texture_id[1] >= Len(scene.textures))
            => /\ IsColor(s.out)
               /\ s.out = shade(s.hit_point, s.normal, Untextured(m), scene,
                                s.view_dir)

\* shade has run on a material whose texture_id is outside a table that is
\* not empty, with a light that reaches the point
C9_Witness ==
    /\ shadeLog # None
    /\ shadeLog[1].material.texture_id # None
    /\ scene.textures # <<>>
    /\ shadeLog[1].material.texture_id[1] >= Len(scene.textures)
    /\ SumLit(shadeLog[1], 1) # zero

\* C10: the k-th texture added got id k-1, and every id given out still
\* denotes the texture it was given for
C10_TextureIds ==
    /\ Len(scene.textures) = Len(texLog)
    /\ \A k \in 1..Len(texLog) :
          /\ texLog[k].id = k - 1
          /\ scene.textures[texLog[k].id + 1] = texLog[k].texture

\* two different textures were added, and objects and lights after them
C10_Witness ==
    /\ Len(texLog) = 2
    /\ texLog[1].texture # texLog[2].texture
    /\ scene.objects # <<>>
    /\ scene.lights # <<>>

\* ------------------------------------------------- Claims on pure functions
Applied(op) == probe # None /\ probe[1].op = op

Finite(t) == t < NAN /\ t > -NAN

\* every coordinate of p is between those of lo and hi, widened by tol
Within(p, lo, hi, tol) ==
    /\ lo.x - tol <= p.x /\ p.x <= hi.x + tol
    /\ lo.y - tol <= p.y /\ p.y <= hi.y + tol
    /\ lo.z - tol <= p.z /\ p.z <= hi.z + tol

\* v0, v1, v2 and the distance of p from their plane
OffPlane(p, v0, v1, v2) ==
    Abs(dot(sub(p, v0), normalize(cross(sub(v1, v0), sub(v2, v0)))))

\* the faces of a pyramid, the base last
FacesOf(self) ==
    LET b == get_base_vertices(self)
    IN  <<<<self.apex, b[1], b[2]>>, <<self.apex, b[2], b[3]>>,
          <<self.apex, b[3], b[1]>>, <<b[1], b[2], b[3]>>>>

\* p is on the surface of the primitive, within 1e-3
OnSurface(object, p) ==
    CASE object.kind = "Sphere" ->
            Abs(length(sub(p, object.center)) - object.radius) <= 10
      [] object.kind = "Plane" ->
            Abs(dot(sub(p, object.point), object.normal)) <= 10
      [] object.kind = "Cube" ->
            /\ Within(p, object.min, object.max, 10)
            /\ \E i \in 0..2 :
                  \/ Abs(Axis(p, i) - Axis(object.min, i)) <= 10
                  \/ Abs(Axis(p, i) - Axis(object.max, i)) <= 10
      [] object.kind = "Pyramid" ->
            \E f \in 1..4 :
               /\ OffPlane(p, FacesOf(object)[f][1], FacesOf(object)[f][2],
                           FacesOf(object)[f][3]) <= 10
               /\ Within(p,
                         Vec3(-object.base_radius + object.base_center.x,
                              Min2(object.apex.y, object.base_center.y),
                              -object.base_radius + object.base_center.z),
                         Vec3(object.base_radius + object.base_center.x,
                              Max2(object.apex.y, object.base_center.y),
                              object.base_radius + object.base_center.z),
                         10)

\* t is above the epsilon floor of the primitive: 1e-4, and 1e-6 for Pyramid
AboveFloor(object, t) ==
    IF object.kind = "Pyramid" THEN GtMicro(t) ELSE t > 1

\* C11: for every primitive and every ray, also one whose direction has zero
\* components or is the zero vector, intersect returns None or Some(t) with t
\* finite, above the primitive's epsilon floor, and ray.at(t) on the surface
\* of the primitive.
C11_IntersectFinite ==
    Applied("intersect") /\ probe[1].out # None =>
        /\ Finite(probe[1].out[1])
        /\ AboveFloor(probe[1].object, probe[1].out[1])
        /\ OnSurface(probe[1].object, at(probe[1].ray, probe[1].out[1]))

\* C12: for every primitive and every point ray.at(t) of a Some(t) its own
\* intersect returned, normal_at returns a vector of length 1 within 1e-4,
\* also for a Sphere of radius 0 and a Pyramid of base_radius 0.
C12_UnitNormal ==
    Applied("normal_at") => Abs(length(probe[1].out) - Scale) <= 1

\* twice the area of the triangle a, b, c
Area2(a, b, c) == length(cross(sub(b, a), sub(c, a)))

\* p lies on the triangle v0, v1, v2, within 1e-3
OnTriangle(p, v0, v1, v2) ==
    /\ OffPlane(p, v0, v1, v2) <= 10
    /\ Area2(p, v0, v1) + Area2(p, v1, v2) + Area2(p, v2, v0)
          <= Area2(v0, v1, v2) + 10

\* the centroid of the four vertices of a pyramid
Centroid(self) ==
    LET b == get_base_vertices(self)
    IN  div(add(add(self.apex, b[1]), add(b[2], b[3])), 4 * Scale)

\* the unit normal of the triangle v0, v1, v2 that points away from `inner`
AwayFrom(v0, v1, v2, inner) ==
    LET n == normalize(cross(sub(v1, v0), sub(v2, v0)))
    IN  IF dot(n, sub(v0, inner)) < 0 THEN neg(n) ELSE n

\* the outward normal of face f of a pyramid: away from the apex for the
\* base (face 4), away from the centroid for a lateral face
OutwardOf(self, f) ==
    AwayFrom(FacesOf(self)[f][1], FacesOf(self)[f][2], FacesOf(self)[f][3],
             IF f = 4 THEN self.apex ELSE Centroid(self))

\* every coordinate of a is within tol of that of b
Near(a, b, tol) ==
    Abs(a.x - b.x) <= tol /\ Abs(a.y - b.y) <= tol /\ Abs(a.z - b.z) <= tol

\* C13: Pyramid::normal_at returns the outward normal of a face the hit point
\* lies on: away from the apex on the base, the triangle's normal oriented
\* away from the centroid on a lateral face, also for a pyramid whose apex is
\* below its base_center.
C13_OutwardNormal ==
    Applied("normal_at") /\ probe[1].object.kind = "Pyramid" =>
        \E f \in 1..4 :
           /\ OnTriangle(probe[1].point, FacesOf(probe[1].object)[f][1],
                         FacesOf(probe[1].object)[f][2],
                         FacesOf(probe[1].object)[f][3])
           /\ Near(probe[1].out, OutwardOf(probe[1].object, f), 2)

\* C14: Vec3::reflect is an involution about a unit normal: for unit d and n,
\* reflect(reflect(d, n), n) is d (within 1e-4, the rounding of the two
\* products), and reflecting about n and about -n give the same vector.
C14_ReflectInvolution ==
    /\ Applied("reflect_again") => Near(probe[1].out, probe[1].d, 1)
    /\ Applied("reflect") => probe[1].out = reflect(probe[1].d, neg(probe[1].n))

\* d is reflected twice about a normal it is neither along nor across
C14_Witness ==
    /\ Applied("reflect_again")
    /\ Abs(dot(probe[1].d, probe[1].n)) \in 1000..9000
    /\ Near(probe[1].out, probe[1].d, 1)

\* min(floor(clamp(c, 0, 1) * n), n - 1), for a coordinate c and n texels
TexelOf(c, n) ==
    IF c <= 0 THEN 0
    ELSE IF c >= Scale THEN n - 1
    ELSE Min2((c * n) \div Scale, n - 1)

\* C15: Texture::sample(u, v) on a texture of width and height at least 1
\* returns data[y][x] with x = min(floor(clamp(u,0,1) * width), width - 1) and
\* y = min(floor(clamp(v,0,1) * height), height - 1), the indices in bounds for
\* every u and v, also outside [0, 1]; a 1x1 texture returns its one color.
C15_Sample ==
    Applied("sample") =>
        /\ TexelOf(probe[1].u, probe[1].texture.width)
              \in 0..(probe[1].texture.width - 1)
        /\ TexelOf(probe[1].v, probe[1].texture.height)
              \in 0..(probe[1].texture.height - 1)
        /\ probe[1].out =
              probe[1].texture.data
                  [TexelOf(probe[1].v, probe[1].texture.height) + 1]
                  [TexelOf(probe[1].u, probe[1].texture.width) + 1]
        /\ probe[1].texture.width = 1 /\ probe[1].texture.height = 1 =>
              probe[1].out = probe[1].texture.data[1][1]

\* a texture of several texels is sampled with u beyond 1 and v inside a
\* texel of the second row: the last texel of that row is returned
C15_Witness ==
    /\ Applied("sample")
    /\ probe[1].texture = Checker
    /\ probe[1].u > Scale
    /\ probe[1].v = 6667
    /\ probe[1].out = Vec3(Scale, Scale, 0)

\* round(clamp(c, 0, 1) * 255), halves rounded up
RoundedByte(c) == (2 * 255 * clamp1(c) + Scale) \div (2 * Scale)

\* C16: each color channel c is converted to the 8-bit value
\* round(clamp(c, 0, 1) * 255), for every c (0.999 gives 255, 0.5 gives 128).
C16_RoundedChannel ==
    Applied("color_to_rgb") =>
        /\ probe[1].out[1] = RoundedByte(probe[1].color.x)
        /\ probe[1].out[2] = RoundedByte(probe[1].color.y)
        /\ probe[1].out[3] = RoundedByte(probe[1].color.z)

\* ---------------------------------------------------- Claims on the render
\* the k-th pixel in row-major order, k from 1
RowMajor(k) == <<(k - 1) % WIDTH, (k - 1) \div WIDTH>>

\* the framebuffers differ at most at column x of row y
SameBut(fb, gb, x, y) ==
    \A j \in 1..HEIGHT : \A i \in 1..WIDTH :
        i # x + 1 \/ j # y + 1 => fb[j][i] = gb[j][i]

\* a step that changes the framebuffer writes only framebuffer[y][x] of the
\* pixel of the loop, with what the trace_ray call made at depth MAX_DEPTH
\* for the ray of that pixel returned
WritesPixel ==
    framebuffer' # framebuffer =>
        /\ SameBut(framebuffer', framebuffer, pixel[1].x, pixel[1].y)
        /\ call[1].depth = 5
        /\ call[1].ray = Camera_get_ray(scene.camera,
                                        FDiv(pixel[1].x * Scale, WIDTH * Scale),
                                        Scale - FDiv(pixel[1].y * Scale,
                                                     HEIGHT * Scale))
        /\ stack = <<>> /\ ret # None
        /\ framebuffer'[pixel[1].y + 1][pixel[1].x + 1] = ret[1].color
        /\ pixel'[1].written = Append(pixel[1].written,
                                      <<pixel[1].x, pixel[1].y>>)

\* the pixels written so far are the first ones in row-major order, and one
\* is written whenever the loop advances
InOrder ==
    /\ Len(pixel[1].written) <= WIDTH * HEIGHT
    /\ \A k \in 1..Len(pixel[1].written) : pixel[1].written[k] = RowMajor(k)
    /\ phase = "render" /\ pixel[1].y < HEIGHT =>
          RowMajor(Len(pixel[1].written) + 1) = <<pixel[1].x, pixel[1].y>>
    /\ phase = "rendered" => Len(pixel[1].written) = WIDTH * HEIGHT

\* C17: during a render the scene is read-only and each pixel is produced
\* exactly once: the loop visits every (x, y) of the image once, in row-major
\* order, writes only framebuffer[y][x] with the result of trace_ray at depth
\* MAX_DEPTH = 5 for the ray of that pixel, and no trace_ray or shade call
\* changes the objects, lights, camera or background color of the scene.
C17_RenderLoop == []InOrder /\ [][WritesPixel /\ scene' = scene]_vars

\* the loop is over: every pixel is written, and some pixel shows an object
C17_Witness ==
    /\ phase = "rendered"
    /\ Len(pixel[1].written) = WIDTH * HEIGHT
    /\ \E j \in 1..HEIGHT : \E i \in 1..WIDTH :
          framebuffer[j][i] \notin {zero, scene.background_color}

\* the direction from the origin to the light of a shade call
ToLight(light) == normalize(light.position)

\* the mirror image of the direction l about the normal n: 2 (n . l) n - l
MirrorOf(l, n) == sub(mul(n, 2 * dot(n, l)), l)

\* ambient + diffuse + lightColor * material.specular * light.intensity
FullHighlight(light, material, normal) ==
    add(add(mul(material.color, 2000),
            mul(mul(mul(material.color,
                        Max2(dot(normal, ToLight(light)), 0)),
                    material.albedo), light.intensity)),
        mul(mul(light.color, material.specular), light.intensity))

\* C18: the specular term of a light that is not shadowed uses the incident
\* light direction (-lightDir) reflected about the normal, so in the mirror
\* configuration, viewDir the mirror image of lightDir about the normal,
\* reflectedLightDir . viewDir is 1 and the specular term is
\* lightColor * material.specular * light.intensity.
C18_MirrorHighlight ==
    /\ Applied("shade")
    /\ probe[1].view_dir = MirrorOf(ToLight(probe[1].light), probe[1].normal)
    => Near(probe[1].out,
            FullHighlight(probe[1].light, probe[1].material, probe[1].normal),
            2)

\* the coefficients of the quadratic of a sphere and a ray, its discriminant
\* and, when that is not negative, its two roots, the smaller first
QuadA(ray) == dot(ray.direction, ray.direction)

QuadB(self, ray) == 2 * dot(sub(ray.origin, self.center), ray.direction)

QuadC(self, ray) ==
    dot(sub(ray.origin, self.center), sub(ray.origin, self.center))
        - FMul(self.radius, self.radius)

Discriminant(self, ray) ==
    FMul(QuadB(self, ray), QuadB(self, ray))
        - 4 * FMul(QuadA(ray), QuadC(self, ray))

RootLow(self, ray) ==
    FDivX(-QuadB(self, ray) - FSqrt(Discriminant(self, ray)), 2 * QuadA(ray))

RootHigh(self, ray) ==
    FDivX(-QuadB(self, ray) + FSqrt(Discriminant(self, ray)), 2 * QuadA(ray))

\* what the claim says Sphere::intersect returns
SphereClaimed(self, ray) ==
    IF Discriminant(self, ray) < 0 THEN None
    ELSE IF FGt(RootLow(self, ray), 1) THEN Some(RootLow(self, ray))
    ELSE IF FGt(RootHigh(self, ray), 1) THEN Some(RootHigh(self, ray))
    ELSE None

\* the origin of the ray is inside the sphere
StartsInside(self, ray) ==
    length(sub(ray.origin, self.center)) < self.radius

\* the sphere is behind the origin of the ray: the origin is outside it and
\* the direction points away from its center
IsBehind(self, ray) ==
    /\ length(sub(ray.origin, self.center)) > self.radius
    /\ dot(sub(self.center, ray.origin), ray.direction) < 0

\* the ray leaves the sphere at p: the direction points outward there
LeavesAt(self, ray, p) == dot(ray.direction, sub(p, self.center)) > 0

Parallel(ray, i) == ~GtMicro(Abs(Axis(ray.direction, i)))

OutsideSlab(self, ray, i) ==
    \/ Axis(ray.origin, i) < Axis(self.min, i)
    \/ Axis(ray.origin, i) > Axis(self.max, i)

SlabNear(self, ray, i) ==
    Min2(FDiv(Axis(self.min, i) - Axis(ray.origin, i), Axis(ray.direction, i)),
         FDiv(Axis(self.max, i) - Axis(ray.origin, i), Axis(ray.direction, i)))

SlabFar(self, ray, i) ==
    Max2(FDiv(Axis(self.min, i) - Axis(ray.origin, i), Axis(ray.direction, i)),
         FDiv(Axis(self.max, i) - Axis(ray.origin, i), Axis(ray.direction, i)))

\* the interval left by the slabs the ray is not parallel to
Crossed(ray) == {i \in 0..2 : ~Parallel(ray, i)}

TMin(self, ray) ==
    IF Crossed(ray) = {} THEN -INFINITY
    ELSE CHOOSE t \in {SlabNear(self, ray, i) : i \in Crossed(ray)} :
             \A i \in Crossed(ray) : SlabNear(self, ray, i) <= t

TMax(self, ray) ==
    IF Crossed(ray) = {} THEN INFINITY
    ELSE CHOOSE t \in {SlabFar(self, ray, i) : i \in Crossed(ray)} :
             \A i \in Crossed(ray) : SlabFar(self, ray, i) >= t

\* what the claim says Cube::intersect returns
CubeClaimed(self, ray) ==
    IF \E i \in 0..2 : Parallel(ray, i) /\ OutsideSlab(self, ray, i)
    THEN None
    ELSE IF TMin(self, ray) > TMax(self, ray) THEN None
    ELSE IF TMin(self, ray) > 1 THEN Some(TMin(self, ray))
    ELSE IF TMax(self, ray) > 1 THEN Some(TMax(self, ray))
    ELSE None

\* the origin of the ray is strictly inside the box
InsideBox(self, ray) ==
    \A i \in 0..2 : /\ Axis(self.min, i) < Axis(ray.origin, i)
                    /\ Axis(ray.origin, i) < Axis(self.max, i)

\* C20: Cube::intersect is the slab test: None if on some axis the direction
\* component is within 1e-6 of zero and the origin is outside the slab of that
\* axis, or if the interval becomes empty (tMin > tMax) at some axis; else
\* tMin if tMin > 1e-4, else tMax if tMax > 1e-4, else None, so a ray that
\* starts inside the box gets its exit distance.
C20_CubeSlabs ==
    Applied("intersect") /\ probe[1].object.kind = "Cube" =>
        /\ probe[1].out = CubeClaimed(probe[1].object, probe[1].ray)
        /\ InsideBox(probe[1].object, probe[1].ray) =>
              probe[1].out = Some(TMax(probe[1].object, probe[1].ray))

\* a ray from outside the box that crosses it gets its entry distance, which
\* is below its exit distance
C20_Witness ==
    /\ Applied("intersect")
    /\ probe[1].object = Box
    /\ ~InsideBox(probe[1].object, probe[1].ray)
    /\ Cardinality(Crossed(probe[1].ray)) >= 1
    /\ probe[1].out # None
    /\ probe[1].out = Some(TMin(probe[1].object, probe[1].ray))
    /\ TMax(probe[1].object, probe[1].ray) > probe[1].out[1]

\* the ray-triangle test of the claim on the triangle v0, v1, v2: None when
\* the ray is parallel to it within 1e-6, when u is outside [0, 1], when
\* v < 0 or u + v > 1, or when t is not above 1e-6; else Some(t)
TriangleClaimed(ray, v0, v1, v2) ==
    LET edge1 == sub(v1, v0)
        edge2 == sub(v2, v0)
        h == cross(ray.direction, edge2)
        a == dot(edge1, h)
        f == FDiv(Scale, a)
        s == sub(ray.origin, v0)
        q == cross(s, edge1)
        u == FMul(f, dot(s, h))
        v == FMul(f, dot(ray.direction, q))
        t == FMul(f, dot(edge2, q))
    IN  IF 100 * Abs(a) < 1 THEN None
        ELSE IF ~(0 <= u /\ u <= Scale) THEN None
        ELSE IF ~(v >= 0 /\ u + v <= Scale) THEN None
        ELSE IF 100 * t > 1 THEN Some(t)
        ELSE None

\* the distances of the faces of a pyramid that pass the test
Accepted(self, ray) ==
    {TriangleClaimed(ray, FacesOf(self)[f][1], FacesOf(self)[f][2],
                     FacesOf(self)[f][3])[1] :
         f \in {g \in 1..4 :
                   TriangleClaimed(ray, FacesOf(self)[g][1],
                                   FacesOf(self)[g][2],
                                   FacesOf(self)[g][3]) # None}}

\* C21: Pyramid::intersect returns the minimum, over its 3 lateral triangles
\* and its base, of the distances t that pass the ray-triangle test (not
\* parallel within 1e-6, u in [0, 1], v >= 0, u + v <= 1, t > 1e-6), and None
\* iff no triangle passes; the result exceeds no triangle's accepted t.
C21_PyramidMinimum ==
    Applied("intersect") /\ probe[1].object.kind = "Pyramid" =>
        /\ probe[1].out = None <=> Accepted(probe[1].object, probe[1].ray) = {}
        /\ probe[1].out # None =>
              /\ probe[1].out[1] \in Accepted(probe[1].object, probe[1].ray)
              /\ \A t \in Accepted(probe[1].object, probe[1].ray) :
                    probe[1].out[1] <= t

\* a ray crosses two faces of a pyramid at different distances and gets the
\* smaller one
C21_Witness ==
    /\ Applied("intersect")
    /\ probe[1].object.kind = "Pyramid"
    /\ Cardinality(Accepted(probe[1].object, probe[1].ray)) >= 2
    /\ probe[1].out # None
    /\ \E t \in Accepted(probe[1].object, probe[1].ray) : probe[1].out[1] < t

\* self without the lights located exactly at point
WithoutLightsAt(self, point) ==
    [self EXCEPT !.lights =
        SelectSeq(self.lights, LAMBDA light : light.position # point)]

\* point lies inside or on a Cube of self
InACube(self, point) ==
    \E i \in 1..Len(self.objects) :
        /\ self.objects[i].kind = "Cube"
        /\ \A a \in 0..2 :
              /\ Axis(self.objects[i].min, a) <= Axis(point, a)
              /\ Axis(point, a) <= Axis(self.objects[i].max, a)

\* C22: a light located exactly at the hit point contributes nothing: shade
\* returns the colour it returns for the same scene without that light,
\* also when the hit point lies inside or on a Cube
C22_LightAtHitPoint ==
    Applied("shade_at_light") =>
        probe[1].out = shade(zero, probe[1].normal, probe[1].material,
                             WithoutLightsAt(probe[1].scene, zero),
                             probe[1].view_dir)

\* shade has run at a point that holds a light and lies on a Cube, on a
\* material with a highlight, and a lamp away from the point adds light
C22_Witness ==
    /\ Applied("shade_at_light")
    /\ InACube(probe[1].scene, zero)
    /\ probe[1].material.specular > 0
    /\ Len(WithoutLightsAt(probe[1].scene, zero).lights) = 1
    /\ probe[1].out # shade(zero, probe[1].normal, probe[1].material,
                            Bare, probe[1].view_dir)

\* every channel of the color is in [0,1]
InUnit(c) == \A v \in {c.x, c.y, c.z} : 0 <= v /\ v <= Scale

\* the background and every material's reflectivity are in [0,1]
UnitScene ==
    /\ InUnit(scene.background_color)
    /\ \A i \in 1..Len(scene.objects) :
          /\ 0 <= get_material(scene.objects[i]).reflectivity
          /\ get_material(scene.objects[i]).reflectivity <= Scale

\* C23: with the background and every reflectivity in [0,1], every color
\* trace_ray returns, at any depth and after any chain of reflection
\* bounces, has every channel in [0,1]
C23_UnitColors ==
    UnitScene =>
        /\ retLog # None => InUnit(retLog[1].result)
        /\ ret # None => InUnit(ret[1].color)
        /\ result # None => InUnit(result[1])

\* the outermost invocation, at the largest depth, has returned the blend of
\* the color it shaded and the color its reflected ray brought back from
\* another surface
C23_Witness ==
    /\ UnitScene
    /\ retLog # None
    /\ retLog[1].cast
    /\ retLog[1].depth = MaxDepthArg
    /\ retLog[1].reflected[1].color # background(scene)
    /\ retLog[1].result # retLog[1].local_color

====
